---- MODULE Spec2Model ----
(***************************************************************************)
(* TinyG2 controller.cpp: the cooperative priority dispatch loop           *)
(* (_controller_HSM), the connection state machine and the command         *)
(* dispatcher (_command_dispatch), the two LED idlers and the planner      *)
(* backpressure gate (_sync_to_planner).                                   *)
(*                                                                         *)
(* Characters are one-character strings; NUL and LF are named.  C strings  *)
(* are sequences of characters (without the terminator); byte buffers are  *)
(* functions from 0..size-1.                                               *)
(***************************************************************************)
EXTENDS Integers, Sequences, FiniteSets, TLC

(***************************************************************************)
(* Bounds of the model.                                                    *)
(***************************************************************************)
MaxClock == 4          \* SysTickTimer readings are 0..MaxClock
MaxBuffers == 1        \* planner buffers available are 0..MaxBuffers
MaxLines == 2          \* the host sends at most this many lines in a run

(***************************************************************************)
(* Program constants.  The headers that set them are not part of          *)
(* controller.cpp; the values are scaled to the bounds above.              *)
(***************************************************************************)
INPUT_BUFFER_LEN == 12
SAVED_BUFFER_LEN == 6
PLANNER_BUFFER_HEADROOM == 1
LED_ALARM_TIMER == 1
LED_NORMAL_TIMER == 2

NUL == "NUL"
LF == "LF"
SPACE == " "

STAT_OK == "STAT_OK"
STAT_EAGAIN == "STAT_EAGAIN"
STAT_NOOP == "STAT_NOOP"
STAT_ERROR == "STAT_ERROR"
STAT_BUFFER_FULL == "STAT_BUFFER_FULL"

CONTROLLER_NOT_CONNECTED == "CONTROLLER_NOT_CONNECTED"
CONTROLLER_STARTUP == "CONTROLLER_STARTUP"
CONTROLLER_READY == "CONTROLLER_READY"

MACHINE_READY == "MACHINE_READY"
MACHINE_ALARM == "MACHINE_ALARM"

TEXT_MODE == "TEXT_MODE"
JSON_MODE == "JSON_MODE"

\* what a continuation of another module may return to DISPATCH
ExtStatus == {STAT_OK, STAT_NOOP, STAT_ERROR, STAT_EAGAIN}
\* what text_parser / gc_gcode_parser may return
ParserStatus == {STAT_OK, STAT_ERROR}

\* the lines the host sends (each followed by LF on the wire)
Lines == { <<>>, <<"h">>, <<"$">>, <<"{">>, <<"g">> }

VARIABLES
    pc,                \* _controller_HSM: 0 = returned to controller_run, k = about to run the k-th DISPATCH line
    cdpc,              \* _command_dispatch: "idle" or "body" (line 177 done, line 180 next)
    controller_state,  \* cs.controller_state
    in_buf,            \* cs.in_buf
    linelen,           \* cs.linelen
    saved_buf,         \* cs.saved_buf, as a C string
    out_buf,           \* cs.out_buf, as a C string
    led_timer,         \* cs.led_timer
    comm_mode,         \* cfg.comm_mode
    led,               \* IndicatorLed
    machine_state,     \* cm_get_machine_state()
    usbConnected,      \* SerialUSB.isConnected()
    buffers,           \* mp_get_planner_buffers_available()
    clock,             \* SysTickTimer.getValue()
    wire,              \* bytes the host has sent that have not arrived yet
    rx,                \* bytes received and not yet read by read_line
    nSent,             \* lines the host has sent in the run
    ran,               \* the tasks invoked so far in this tick, in order
    blockedAt,         \* position of the task that returned STAT_EAGAIN in this tick, else 0
    alarmSeen,         \* what _alarm_idler read from cm_get_machine_state() in this tick
    gateSaw,           \* what _sync_to_planner read from the planner in this tick, else -1
    entryPhase,        \* cs.controller_state when _command_dispatch was entered in this tick
    connReads,         \* the values SerialUSB.isConnected() returned in this poll
    calls,             \* the calls _command_dispatch made in this poll
    cdRet,             \* what _command_dispatch returned in this tick
    gateHeld           \* << >>, or what a gate poll that found too little headroom left behind

vars == << pc, cdpc, controller_state, in_buf, linelen, saved_buf, out_buf, led_timer,
           comm_mode, led, machine_state, usbConnected, buffers, clock, wire, rx, nSent,
           ran, blockedAt, alarmSeen, gateSaw, entryPhase, connReads, calls, cdRet,
           gateHeld >>

csVars == << controller_state, in_buf, linelen, saved_buf, out_buf, comm_mode >>
ledVars == << led_timer, led >>
envVars == << machine_state, usbConnected, buffers, wire, rx, nSent >>
cdLog == << entryPhase, connReads, calls, cdRet >>

NoLine == << "none" >>

(***************************************************************************)
(* C strings and byte buffers.                                             *)
(***************************************************************************)
Min(S) == CHOOSE x \in S : \A y \in S : x <= y

EmptyBuf == [i \in 0..(INPUT_BUFFER_LEN - 1) |-> NUL]

\* the C string that starts at buf[0]: the bytes before the first NUL
CStr(buf) ==
    LET nuls == {i \in DOMAIN buf : buf[i] = NUL}
        n == IF nuls = {} THEN INPUT_BUFFER_LEN ELSE Min(nuls)
    IN  [i \in 1..n |-> buf[i - 1]]

Take(s, n) == IF Len(s) <= n THEN s ELSE SubSeq(s, 1, n)

\* strncpy(dst, src, n) into a zero-initialised dst that is longer than n:
\* the string dst holds afterwards
strncpy(src, n) == Take(src, n)

\* the bytes str and its terminator, written from buf[0]; bytes that fall
\* beyond the buffer are not kept
WriteStr(buf, str) ==
    [i \in DOMAIN buf |->
        IF i < Len(str) THEN str[i + 1]
        ELSE IF i = Len(str) THEN NUL
        ELSE buf[i]]

toupper(c) ==
    CASE c = "h" -> "H"
      [] c = "g" -> "G"
      [] c = "x" -> "X"
      [] c = "c" -> "C"
      [] OTHER -> c

\* sprintf(in_buf, "{\"gc\":\"%s\"}\n", out_buf)
GcWrap(str) == << "{", "\"", "g", "c", "\"", ":", "\"" >> \o str \o << "\"", "}", LF >>

(***************************************************************************)
(* read_line(buffer, &index, size) of xio: non-blocking, keeps a partial   *)
(* line in the buffer across calls, terminates a complete line with NUL.   *)
(***************************************************************************)
RECURSIVE read_line(_, _, _, _)
read_line(buf, index, size, q) ==
    IF index >= size
    THEN [stat |-> STAT_BUFFER_FULL, buf |-> buf, index |-> index, q |-> q]
    ELSE IF q = << >>
    THEN [stat |-> STAT_EAGAIN, buf |-> buf, index |-> index, q |-> q]
    ELSE IF Head(q) = LF
    THEN [stat |-> STAT_OK, buf |-> [buf EXCEPT ![index] = NUL], index |-> index, q |-> Tail(q)]
    ELSE read_line([buf EXCEPT ![index] = Head(q)], index + 1, size, Tail(q))

(***************************************************************************)
(* The DISPATCH macro and the order of the DISPATCH lines.                 *)
(***************************************************************************)
\* the dispatcher placed before the gate
HSMOrder_DispatchBeforeGate ==
    << "hw_hard_reset_handler", "_alarm_idler", "poll_switches",
       "_limit_switch_handler", "cm_feedhold_sequencing_callback",
       "mp_plan_hold_callback", "st_motor_power_callback",
       "sr_status_report_callback", "qr_queue_report_callback",
       "cm_arc_callback", "cm_homing_callback", "_command_dispatch",
       "_sync_to_planner", "_normal_idler" >>

\* the dispatcher polled first
HSMOrder_DispatchFirst ==
    << "_command_dispatch", "hw_hard_reset_handler", "_alarm_idler", "poll_switches",
       "_limit_switch_handler", "cm_feedhold_sequencing_callback",
       "mp_plan_hold_callback", "st_motor_power_callback",
       "sr_status_report_callback", "qr_queue_report_callback",
       "cm_arc_callback", "cm_homing_callback", "_sync_to_planner", "_normal_idler" >>

HSMOrder == << "hw_hard_reset_handler", "_alarm_idler", "poll_switches",
               "_limit_switch_handler", "cm_feedhold_sequencing_callback",
               "mp_plan_hold_callback", "st_motor_power_callback",
               "sr_status_report_callback", "qr_queue_report_callback",
               "cm_arc_callback", "cm_homing_callback", "_sync_to_planner",
               "_command_dispatch", "_normal_idler" >>

\* continuations of other modules, polled with no argument
ExternalTasks == { "hw_hard_reset_handler", "poll_switches",
                   "cm_feedhold_sequencing_callback", "mp_plan_hold_callback",
                   "st_motor_power_callback", "sr_status_report_callback",
                   "qr_queue_report_callback", "cm_arc_callback", "cm_homing_callback" }

\* DISPATCH that falls through whatever the task returned
DISPATCH_FallsThrough(k, stat) ==
    IF k = Len(HSMOrder) THEN 0 ELSE k + 1

\* #define DISPATCH(func) if (func == STAT_EAGAIN) return;
\* the position after the task at position k returned stat (0: _controller_HSM returns)
DISPATCH(k, stat) ==
    IF stat = STAT_EAGAIN THEN 0
    ELSE IF k = Len(HSMOrder) THEN 0
    ELSE k + 1

AtTask(name) == pc \in 1..Len(HSMOrder) /\ HSMOrder[pc] = name

\* the task at pc was called and returned stat
Returned(name, stat) ==
    /\ ran' = Append(ran, name)
    /\ blockedAt' = IF stat = STAT_EAGAIN THEN pc ELSE blockedAt
    /\ pc' = DISPATCH(pc, stat)

Call(fn, stat, arg) == [fn |-> fn, stat |-> stat, arg |-> arg]

(***************************************************************************)
(* The state after static initialisation and controller_init().            *)
(***************************************************************************)
Init ==
    /\ pc = 0
    /\ cdpc = "idle"
    /\ controller_state = CONTROLLER_NOT_CONNECTED
    /\ in_buf = EmptyBuf
    /\ linelen = 0
    /\ saved_buf = << >>
    /\ out_buf = << >>
    /\ led_timer = 0
    /\ comm_mode = TEXT_MODE
    /\ led = FALSE
    /\ machine_state = MACHINE_READY
    /\ usbConnected = FALSE
    /\ buffers = MaxBuffers
    /\ clock = 0
    /\ wire = << >>
    /\ rx = << >>
    /\ nSent = 0
    /\ ran = << >>
    /\ blockedAt = 0
    /\ alarmSeen = "none"
    /\ gateSaw = -1
    /\ entryPhase = "none"
    /\ connReads = << >>
    /\ calls = << >>
    /\ cdRet = "none"
    /\ gateHeld = << >>

(***************************************************************************)
(* controller_run(): while (true) _controller_HSM();                       *)
(***************************************************************************)
ControllerRun ==
    /\ pc = 0
    /\ pc' = 1
    /\ ran' = << >>
    /\ blockedAt' = 0
    /\ alarmSeen' = "none"
    /\ gateSaw' = -1
    /\ entryPhase' = "none"
    /\ connReads' = << >>
    /\ calls' = << >>
    /\ cdRet' = "none"
    /\ gateHeld' = IF \E i \in 1..Len(ran) : ran[i] = "_command_dispatch"
                   THEN << >> ELSE gateHeld
    /\ UNCHANGED << cdpc, csVars, ledVars, envVars, clock >>

(***************************************************************************)
(* DISPATCH lines that poll a continuation of another module.              *)
(***************************************************************************)
ExternalTask(name) ==
    /\ AtTask(name)
    /\ \E stat \in ExtStatus : Returned(name, stat)
    /\ UNCHANGED << cdpc, csVars, ledVars, envVars, clock, alarmSeen, gateSaw, cdLog,
                    gateHeld >>

(***************************************************************************)
(* _limit_switch_handler(): its body is commented out.                     *)
(***************************************************************************)
limit_switch_handler == STAT_OK

LimitSwitchHandler ==
    /\ AtTask("_limit_switch_handler")
    /\ Returned("_limit_switch_handler", limit_switch_handler)
    /\ UNCHANGED << cdpc, csVars, ledVars, envVars, clock, alarmSeen, gateSaw, cdLog,
                    gateHeld >>

(***************************************************************************)
(* _alarm_idler() and _normal_idler().  SysTickTimer.getValue() is read    *)
(* for the comparison and again for the new deadline; the timer may have   *)
(* advanced in between.                                                    *)
(***************************************************************************)
\* an alarm idler that lets the tick go on
alarm_idler_status_Ok(ms) == STAT_OK

alarm_idler_status(ms) == IF ms # MACHINE_ALARM THEN STAT_OK ELSE STAT_EAGAIN

\* a deadline without the period
NewDeadline_NoPeriod(now, period) == now

\* lines 258, 267: cs.led_timer = SysTickTimer.getValue() + period
NewDeadline(now, period) == now + period

\* the idler's LED update: fires when the clock has passed cs.led_timer
Blink(period) ==
    IF clock > led_timer
    THEN \E now \in {clock, clock + 1} :
            /\ now <= MaxClock
            /\ clock' = now
            /\ led_timer' = NewDeadline(now, period)
            /\ led' = ~led
    ELSE UNCHANGED << clock, led_timer, led >>

AlarmIdler ==
    /\ AtTask("_alarm_idler")
    /\ alarmSeen' = machine_state
    /\ IF machine_state # MACHINE_ALARM
       THEN UNCHANGED << clock, led_timer, led >>
       ELSE Blink(LED_ALARM_TIMER)
    /\ Returned("_alarm_idler", alarm_idler_status(machine_state))
    /\ UNCHANGED << cdpc, csVars, envVars, gateSaw, cdLog, gateHeld >>

normal_idler_status == STAT_OK

NormalIdler ==
    /\ AtTask("_normal_idler")
    /\ Blink(LED_NORMAL_TIMER)
    /\ Returned("_normal_idler", normal_idler_status)
    /\ UNCHANGED << cdpc, csVars, envVars, alarmSeen, gateSaw, cdLog, gateHeld >>

(***************************************************************************)
(* _sync_to_planner()                                                      *)
(***************************************************************************)
\* a gate that is off by one
sync_to_planner_OffByOne(available) ==
    IF available < PLANNER_BUFFER_HEADROOM - 1 THEN STAT_EAGAIN ELSE STAT_OK

sync_to_planner(available) ==
    IF available < PLANNER_BUFFER_HEADROOM THEN STAT_EAGAIN ELSE STAT_OK

\* the complete line read_line would hand over now, if there is one
PendingNow ==
    LET r == read_line(in_buf, linelen, INPUT_BUFFER_LEN, rx)
    IN  IF r.stat = STAT_OK THEN CStr(r.buf) ELSE NoLine

\* the controller fields and the unread input, as a gate poll leaves them
Held ==
    [ controller_state |-> controller_state, in_buf |-> in_buf, linelen |-> linelen,
      saved_buf |-> saved_buf, comm_mode |-> comm_mode, rx |-> rx, line |-> PendingNow ]

SyncToPlanner ==
    /\ AtTask("_sync_to_planner")
    /\ gateSaw' = buffers
    /\ gateHeld' = IF buffers < PLANNER_BUFFER_HEADROOM THEN << Held >> ELSE gateHeld
    /\ Returned("_sync_to_planner", sync_to_planner(buffers))
    /\ UNCHANGED << cdpc, csVars, ledVars, envVars, clock, alarmSeen, cdLog >>

(***************************************************************************)
(* _command_dispatch()                                                     *)
(***************************************************************************)
\* a disconnect that is noticed only in CONTROLLER_READY
DetectDisconnect_ReadyOnly(state, connected) ==
    IF connected = FALSE /\ state = CONTROLLER_READY THEN CONTROLLER_NOT_CONNECTED ELSE state

\* line 177: if (SerialUSB.isConnected() == false) cs.controller_state = CONTROLLER_NOT_CONNECTED;
DetectDisconnect(state, connected) ==
    IF connected = FALSE THEN CONTROLLER_NOT_CONNECTED ELSE state

\* a response that always reports success
ResponseStatus_Ok(pstat) == STAT_OK

\* lines 221, 235: the parser's status is the first argument of text_response
ResponseStatus(pstat) == pstat

\* line 232: the bytes sprintf writes for the string str, terminator included
BytesWritten(str) == Len(str) + 1

\* line 233: the string json_parser finds at cs.in_buf after sprintf wrote
\* str there.  Writing past the end of cs.in_buf is undefined: the bytes
\* beyond it are read back as written (kept) or are lost.
StringAt(buf, str, kept) ==
    IF BytesWritten(str) <= INPUT_BUFFER_LEN \/ kept
    THEN str
    ELSE Take(str, INPUT_BUFFER_LEN)

\* lines 202-238: save the line, clear the cursor, dispatch on the first
\* character.  pstat is the status the text or Gcode parser returns if called;
\* kept is the outcome of a write past the end of cs.in_buf.
\* Gives the buffers, the mode and the calls made.
ExecuteLine(buf, mode, outb, pstat, kept) ==
    LET line == CStr(buf)
        saved == strncpy(line, SAVED_BUFFER_LEN - 1)
        c == toupper(buf[0])
        same == [in_buf |-> buf, saved_buf |-> saved, out_buf |-> outb, comm_mode |-> mode]
    IN  CASE c = NUL ->
                [same EXCEPT !.comm_mode = mode] @@
                [calls |-> IF mode # JSON_MODE
                           THEN << Call("text_response", STAT_OK, saved) >>
                           ELSE << >>]
          [] c = "H" ->
                [same EXCEPT !.comm_mode = TEXT_MODE] @@
                [calls |-> << Call("help_general", "-", << >>),
                              Call("text_response", STAT_OK, line) >>]
          [] c \in {"$", "?"} ->
                [same EXCEPT !.comm_mode = TEXT_MODE] @@
                [calls |-> << Call("text_parser", pstat, line),
                              Call("text_response", ResponseStatus(pstat), saved) >>]
          [] c = "{" ->
                [same EXCEPT !.comm_mode = JSON_MODE] @@
                [calls |-> << Call("json_parser", "-", line) >>]
          [] OTHER ->
                IF mode = JSON_MODE
                THEN LET tmp == strncpy(line, INPUT_BUFFER_LEN - 8)
                         wrapped == GcWrap(tmp)
                     IN  [same EXCEPT !.out_buf = tmp, !.in_buf = WriteStr(buf, wrapped)] @@
                         [calls |-> << Call("sprintf", BytesWritten(wrapped), wrapped),
                                       Call("json_parser", "-", StringAt(buf, wrapped, kept)) >>]
                ELSE same @@
                     [calls |-> << Call("gc_gcode_parser", pstat, line),
                                   Call("text_response", ResponseStatus(pstat), saved) >>]

\* line 186 without its check
StillDisconnected_Unchecked(connected) == FALSE

\* line 186: if (SerialUSB.isConnected() == false) return (STAT_OK);
StillDisconnected(connected) == connected = FALSE

\* lines 187-188: the calls made when the link is found attached
AttachCalls == << Call("cm_request_queue_flush", "-", << >>),
                 Call("rpt_print_system_ready_message", "-", << >>) >>

\* startup code that announces the system again
StartupCalls_ReadyAgain == << [fn |-> "rpt_print_system_ready_message", stat |-> "-", arg |-> << >>] >>

\* lines 192-194: the startup code (all of it commented out)
StartupCalls == << >>

\* the calls to fn among cs
RECURSIVE CountCalls(_, _)
CountCalls(cs, fn) ==
    IF cs = << >> THEN 0
    ELSE (IF Head(cs).fn = fn THEN 1 ELSE 0) + CountCalls(Tail(cs), fn)

\* the reader's status handed on to DISPATCH
ReadFailedReturn_Status(stat) == stat

\* line 182: what the dispatcher returns when read_line did not return STAT_OK
ReadFailedReturn(stat) == STAT_OK
\* line 186: what it returns while still not connected
NotConnectedReturn == STAT_OK
\* line 239
DispatchedReturn == STAT_OK

\* _command_dispatch returns stat to its DISPATCH line
CD_Return(stat) ==
    /\ cdRet' = stat
    /\ cdpc' = "idle"
    /\ blockedAt' = IF stat = STAT_EAGAIN THEN pc ELSE blockedAt
    /\ pc' = DISPATCH(pc, stat)

\* a cursor left where the reader put it
CursorAfterSave_Kept(len) == len

\* line 203: cs.linelen = 0;
CursorAfterSave(len) == 0

\* lines 201-239 on the buffer buf with cursor len, after the calls `before`
CD_Execute(buf, len, before) ==
    \E pstat \in ParserStatus, kept \in BOOLEAN :
        LET e == ExecuteLine(buf, comm_mode, out_buf, pstat, kept)
        IN  /\ in_buf' = e.in_buf
            /\ saved_buf' = e.saved_buf
            /\ out_buf' = e.out_buf
            /\ comm_mode' = e.comm_mode
            /\ linelen' = CursorAfterSave(len)
            /\ calls' = before \o e.calls
            /\ CD_Return(DispatchedReturn)

\* entry and line 177
CD_Enter ==
    /\ AtTask("_command_dispatch")
    /\ cdpc = "idle"
    /\ cdpc' = "body"
    /\ ran' = Append(ran, "_command_dispatch")
    /\ entryPhase' = controller_state
    /\ connReads' = << usbConnected >>
    /\ controller_state' = DetectDisconnect(controller_state, usbConnected)
    /\ UNCHANGED << pc, in_buf, linelen, saved_buf, out_buf, comm_mode, ledVars, envVars,
                    clock, blockedAt, alarmSeen, gateSaw, calls, cdRet, gateHeld >>

\* lines 180-183: CONTROLLER_READY
CD_Ready ==
    /\ cdpc = "body"
    /\ controller_state = CONTROLLER_READY
    /\ LET r == read_line(in_buf, linelen, INPUT_BUFFER_LEN, rx)
           rd == << Call("read_line", r.stat, IF r.stat = STAT_OK THEN CStr(r.buf) ELSE << >>) >>
       IN  /\ rx' = r.q
           /\ IF r.stat # STAT_OK
              THEN /\ in_buf' = r.buf
                   /\ linelen' = r.index
                   /\ calls' = rd
                   /\ CD_Return(ReadFailedReturn(r.stat))
                   /\ UNCHANGED << saved_buf, out_buf, comm_mode >>
              ELSE CD_Execute(r.buf, r.index, rd)
    /\ UNCHANGED << controller_state, ledVars, machine_state, usbConnected, buffers, wire,
                    nSent, clock, ran, alarmSeen, gateSaw, entryPhase, connReads, gateHeld >>

\* lines 185-189: CONTROLLER_NOT_CONNECTED
CD_NotConnected ==
    /\ cdpc = "body"
    /\ controller_state = CONTROLLER_NOT_CONNECTED
    /\ connReads' = Append(connReads, usbConnected)
    /\ IF StillDisconnected(usbConnected)
       THEN /\ CD_Return(NotConnectedReturn)
            /\ UNCHANGED << csVars, calls >>
       ELSE /\ controller_state' = CONTROLLER_STARTUP
            /\ CD_Execute(in_buf, linelen, AttachCalls)
    /\ UNCHANGED << ledVars, envVars, clock, ran, alarmSeen, gateSaw, entryPhase, gateHeld >>

\* a startup that never completes
StartupDone_Stuck == CONTROLLER_STARTUP

\* line 195: cs.controller_state = CONTROLLER_READY;
StartupDone == CONTROLLER_READY

\* lines 191-195: CONTROLLER_STARTUP
CD_Startup ==
    /\ cdpc = "body"
    /\ controller_state = CONTROLLER_STARTUP
    /\ controller_state' = StartupDone
    /\ CD_Execute(in_buf, linelen, StartupCalls)
    /\ UNCHANGED << ledVars, envVars, clock, ran, alarmSeen, gateSaw, entryPhase, connReads,
                    gateHeld >>

(***************************************************************************)
(* The world outside the loop: the machine, the USB link, the planner,     *)
(* the system tick, and the host writing lines to the link.                *)
(***************************************************************************)
loopVars == << pc, cdpc, csVars, ledVars, ran, blockedAt, alarmSeen, gateSaw, cdLog,
               gateHeld >>

MachineChange ==
    /\ machine_state' = IF machine_state = MACHINE_ALARM THEN MACHINE_READY ELSE MACHINE_ALARM
    /\ UNCHANGED << loopVars, usbConnected, buffers, clock, wire, rx, nSent >>

UsbChange ==
    /\ usbConnected' = ~usbConnected
    /\ UNCHANGED << loopVars, machine_state, buffers, clock, wire, rx, nSent >>

PlannerChange ==
    /\ \E b \in 0..MaxBuffers : b # buffers /\ buffers' = b
    /\ UNCHANGED << loopVars, machine_state, usbConnected, clock, wire, rx, nSent >>

SysTick ==
    /\ clock < MaxClock
    /\ clock' = clock + 1
    /\ UNCHANGED << loopVars, machine_state, usbConnected, buffers, wire, rx, nSent >>

HostSend ==
    /\ wire = << >>
    /\ rx = << >>
    /\ nSent < MaxLines
    /\ nSent' = nSent + 1
    /\ \E l \in Lines : wire' = l \o << LF >>
    /\ UNCHANGED << loopVars, machine_state, usbConnected, buffers, clock, rx >>

RxArrive ==
    /\ wire # << >>
    /\ usbConnected
    /\ rx' = Append(rx, Head(wire))
    /\ wire' = Tail(wire)
    /\ UNCHANGED << loopVars, machine_state, usbConnected, buffers, clock, nSent >>

\* one step of controller_run()
Loop ==
    \/ ControllerRun
    \/ \E name \in ExternalTasks : ExternalTask(name)
    \/ LimitSwitchHandler
    \/ AlarmIdler
    \/ NormalIdler
    \/ SyncToPlanner
    \/ CD_Enter
    \/ CD_Ready
    \/ CD_NotConnected
    \/ CD_Startup

\* The loop with the machine, the link, the planner and the host around it;
\* the system tick stands still (the LED deadline is never passed).
Next ==
    \/ Loop
    \/ MachineChange
    \/ UsbChange
    \/ PlannerChange
    \/ HostSend
    \/ RxArrive

Spec == Init /\ [][Next]_vars

\* The loop with the system tick running and no input from the host.
NextTimed ==
    \/ Loop
    \/ MachineChange
    \/ UsbChange
    \/ PlannerChange
    \/ SysTick

SpecTimed == Init /\ [][NextTimed]_vars

\* the host sends one line in the run
HostSendFirst ==
    /\ nSent = 0
    /\ HostSend

\* The loop running for ever (controller_run: while (true)), with the
\* machine, the link and the planner changing at any time and one line sent.
NextLive ==
    \/ Loop
    \/ MachineChange
    \/ UsbChange
    \/ PlannerChange
    \/ HostSendFirst
    \/ RxArrive

SpecLive == Init /\ [][NextLive]_vars /\ WF_vars(Loop)

(***************************************************************************)
(* The dispatcher on motion-command lines of every length read_line can    *)
(* deliver, and on lines that start with a space.  The run starts in       *)
(* CONTROLLER_READY with the link up, in text mode as after the two polls  *)
(* that follow an attach, or in JSON mode as after a "{" line was          *)
(* dispatched, and with one whole line received.                           *)
(***************************************************************************)
\* "g", "gx", "gxx", ...: a motion-command line of n characters
GLine(n) == [i \in 1..n |-> IF i = 1 THEN "g" ELSE "x"]

LongLines == { GLine(n) : n \in 1..(INPUT_BUFFER_LEN - 1) }

\* lines whose first character is a space
SpacedLines == { << SPACE, "$" >>, << SPACE, "{" >>, << SPACE, "h" >> }

InitLong ==
    /\ pc = 0
    /\ cdpc = "idle"
    /\ controller_state = CONTROLLER_READY
    /\ \E mode \in {TEXT_MODE, JSON_MODE} :
          /\ comm_mode = mode
          /\ in_buf = IF mode = JSON_MODE THEN WriteStr(EmptyBuf, << "{" >>) ELSE EmptyBuf
          /\ saved_buf = IF mode = JSON_MODE THEN << "{" >> ELSE << >>
    /\ linelen = 0
    /\ out_buf = << >>
    /\ led_timer = 0
    /\ led = FALSE
    /\ machine_state = MACHINE_READY
    /\ usbConnected = TRUE
    /\ buffers = MaxBuffers
    /\ clock = 0
    /\ wire = << >>
    /\ \E l \in LongLines \cup SpacedLines : rx = l \o << LF >>
    /\ nSent = 1
    /\ ran = << >>
    /\ blockedAt = 0
    /\ alarmSeen = "none"
    /\ gateSaw = -1
    /\ entryPhase = "none"
    /\ connReads = << >>
    /\ calls = << >>
    /\ cdRet = "none"
    /\ gateHeld = << >>

NextLong ==
    \/ Loop
    \/ UsbChange

SpecLong == InitLong /\ [][NextLong]_vars

(***************************************************************************)
(* What the properties below read off the state.                           *)
(***************************************************************************)
\* the order of the tasks as the specification lists it
ClaimedOrder == << "hw_hard_reset_handler", "_alarm_idler", "poll_switches",
                   "_limit_switch_handler", "cm_feedhold_sequencing_callback",
                   "mp_plan_hold_callback", "st_motor_power_callback",
                   "sr_status_report_callback", "qr_queue_report_callback",
                   "cm_arc_callback", "cm_homing_callback", "_sync_to_planner",
                   "_command_dispatch", "_normal_idler" >>

Pos(name) == CHOOSE i \in 1..Len(ClaimedOrder) : ClaimedOrder[i] = name

InRan(name) == \E i \in 1..Len(ran) : ran[i] = name

\* _controller_HSM has returned from a tick
TickDone == pc = 0 /\ ran # << >>

\* _command_dispatch has returned in this tick
PollDone == cdRet # "none"

Called(fn) == \E i \in 1..Len(calls) : calls[i].fn = fn

HandlerFns == { "text_response", "help_general", "text_parser", "json_parser",
                "gc_gcode_parser" }

HandlerCalled == \E i \in 1..Len(calls) : calls[i].fn \in HandlerFns

\* the poll called read_line and got a complete line
LineRead == calls # << >> /\ calls[1].fn = "read_line" /\ calls[1].stat = STAT_OK

IsPrefix(s, t) == Len(s) <= Len(t) /\ \A i \in 1..Len(s) : s[i] = t[i]

(***************************************************************************)
(* C1.  In every tick the tasks invoked are a prefix of the fixed order,   *)
(* each at most once; a task is invoked iff every task before it returned  *)
(* something other than STAT_EAGAIN in this tick: while the tick runs      *)
(* nothing has returned STAT_EAGAIN and exactly the tasks before pc have   *)
(* been invoked, a task that returns STAT_EAGAIN is the last one of its    *)
(* tick, and a tick in which nothing returned STAT_EAGAIN invoked all.     *)
(* Only this tick's results are read.                                      *)
(***************************************************************************)
C1_PrefixOfOrder ==
    LET n == Len(ran)
    IN  /\ n <= Len(ClaimedOrder)
        /\ \A i \in 1..n : ran[i] = ClaimedOrder[i]
        /\ blockedAt # 0 => (blockedAt = n /\ pc = 0)
        /\ pc # 0 => (blockedAt = 0 /\ n = (IF cdpc = "body" THEN pc ELSE pc - 1))
        /\ (TickDone /\ blockedAt = 0) => n = Len(ClaimedOrder)

\* a tick that the motor power callback (position 7) ended
C1_Witness == pc = 0 /\ blockedAt = 7 /\ Len(ran) = 7

(***************************************************************************)
(* C2.  When _alarm_idler finds the machine in alarm it returns            *)
(* STAT_EAGAIN and the tick ends there: switch polling, the limit handler, *)
(* the reports, the gate, the dispatcher and the normal idler are not      *)
(* invoked in that tick, while hw_hard_reset_handler was invoked first, as *)
(* in every tick; when it finds no alarm it does not return STAT_EAGAIN.   *)
(***************************************************************************)
C2_AlarmBlocks ==
    /\ ran # << >> => ran[1] = "hw_hard_reset_handler"
    /\ alarmSeen = MACHINE_ALARM =>
          /\ blockedAt = Pos("_alarm_idler")
          /\ pc = 0
          /\ ran = << "hw_hard_reset_handler", "_alarm_idler" >>
          /\ \A t \in { "poll_switches", "_limit_switch_handler",
                        "sr_status_report_callback", "qr_queue_report_callback",
                        "_sync_to_planner", "_command_dispatch", "_normal_idler" } :
                ~InRan(t)
    /\ alarmSeen = MACHINE_READY =>
          /\ InRan("_alarm_idler")
          /\ blockedAt # Pos("_alarm_idler")

C2_Witness == alarmSeen = MACHINE_ALARM /\ machine_state = MACHINE_ALARM /\ pc = 0

(***************************************************************************)
(* C3.  _sync_to_planner returns STAT_EAGAIN exactly when it finds fewer   *)
(* than PLANNER_BUFFER_HEADROOM buffers available, and whenever            *)
(* _command_dispatch has been invoked in a tick, the gate was polled       *)
(* before it in that tick and found at least the headroom.                 *)
(***************************************************************************)
C3_GateBeforeDispatch ==
    /\ gateSaw # -1 =>
          /\ InRan("_sync_to_planner")
          /\ (blockedAt = Pos("_sync_to_planner")) <=> (gateSaw < PLANNER_BUFFER_HEADROOM)
    /\ InRan("_command_dispatch") =>
          /\ gateSaw # -1
          /\ gateSaw >= PLANNER_BUFFER_HEADROOM
          /\ \E i, j \in 1..Len(ran) :
                i < j /\ ran[i] = "_sync_to_planner" /\ ran[j] = "_command_dispatch"

\* the dispatcher runs although the planner has meanwhile run out of headroom
C3_Witness ==
    /\ InRan("_command_dispatch")
    /\ gateSaw >= PLANNER_BUFFER_HEADROOM
    /\ buffers < PLANNER_BUFFER_HEADROOM

C5_Original ==
    PollDone =>
        << entryPhase, controller_state >> \in
            { << CONTROLLER_NOT_CONNECTED, CONTROLLER_NOT_CONNECTED >>,
              << CONTROLLER_NOT_CONNECTED, CONTROLLER_STARTUP >>,
              << CONTROLLER_STARTUP, CONTROLLER_READY >>,
              << CONTROLLER_READY, CONTROLLER_READY >>,
              << CONTROLLER_READY, CONTROLLER_NOT_CONNECTED >> }

(***************************************************************************)
(* C5 as amended.  Across one poll the phase at exit is decided by the     *)
(* phase at entry and the values SerialUSB.isConnected() returns: if the   *)
(* first read (line 177) is connected, NotConnected becomes Startup when   *)
(* the second read (line 186) is connected too and stays otherwise,        *)
(* Startup becomes Ready and Ready stays Ready; if the first read is       *)
(* disconnected, every phase becomes NotConnected, and then Startup in     *)
(* the same poll if the second read is connected.  NotConnected never      *)
(* becomes Ready in one poll.                                              *)
(***************************************************************************)
C5_Amended ==
    PollDone =>
        LET c1 == connReads[1]
            twice == (~c1) \/ entryPhase = CONTROLLER_NOT_CONNECTED
            attach == IF connReads[Len(connReads)]
                      THEN CONTROLLER_STARTUP ELSE CONTROLLER_NOT_CONNECTED
        IN  /\ Len(connReads) = (IF twice THEN 2 ELSE 1)
            /\ controller_state =
                  IF twice THEN attach ELSE CONTROLLER_READY
            /\ << entryPhase, controller_state >> #
                  << CONTROLLER_NOT_CONNECTED, CONTROLLER_READY >>

\* Startup left for NotConnected: the link was down at both reads
C5_Witness ==
    /\ PollDone
    /\ entryPhase = CONTROLLER_STARTUP
    /\ controller_state = CONTROLLER_NOT_CONNECTED

(***************************************************************************)
(* C6.  A poll of _command_dispatch in which every read of                 *)
(* SerialUSB.isConnected() returns disconnected leaves the phase           *)
(* NotConnected whatever it was at entry, calls neither read_line nor a    *)
(* handler nor the queue flush nor the ready message, and returns STAT_OK. *)
(***************************************************************************)
C6_DisconnectedPoll ==
    /\ (cdpc = "body" /\ connReads = << FALSE >>) =>
          controller_state = CONTROLLER_NOT_CONNECTED
    /\ (PollDone /\ \A i \in 1..Len(connReads) : connReads[i] = FALSE) =>
          /\ connReads = << FALSE, FALSE >>
          /\ controller_state = CONTROLLER_NOT_CONNECTED
          /\ calls = << >>
          /\ cdRet = STAT_OK
          /\ blockedAt = 0

C6_Witness ==
    /\ PollDone
    /\ entryPhase = CONTROLLER_READY
    /\ connReads = << FALSE, FALSE >>
    /\ rx # << >>

(***************************************************************************)
(* C7.  A poll that enters in NotConnected with the link up (at both       *)
(* reads) leaves in Startup having called cm_request_queue_flush() once    *)
(* and rpt_print_system_ready_message() once; and every step of the        *)
(* program calls each of the two exactly once if it takes                  *)
(* cs.controller_state from NotConnected to Startup and not at all         *)
(* otherwise, so that over any run both counts equal the number of         *)
(* NotConnected -> Startup transitions.                                    *)
(***************************************************************************)
C7_AttachStep ==
    LET attach == /\ controller_state = CONTROLLER_NOT_CONNECTED
                  /\ controller_state' = CONTROLLER_STARTUP
        issued(fn) == IF calls' = calls THEN 0 ELSE CountCalls(calls', fn)
    IN  /\ issued("cm_request_queue_flush") = (IF attach THEN 1 ELSE 0)
        /\ issued("rpt_print_system_ready_message") = (IF attach THEN 1 ELSE 0)

C7_AttachPoll ==
    (PollDone /\ entryPhase = CONTROLLER_NOT_CONNECTED /\ connReads = << TRUE, TRUE >>) =>
        /\ controller_state = CONTROLLER_STARTUP
        /\ CountCalls(calls, "cm_request_queue_flush") = 1
        /\ CountCalls(calls, "rpt_print_system_ready_message") = 1

C7_FlushAndReadyOnAttach == [] C7_AttachPoll /\ [][C7_AttachStep]_vars

C7_Witness ==
    /\ PollDone
    /\ entryPhase = CONTROLLER_NOT_CONNECTED
    /\ connReads = << TRUE, TRUE >>
    /\ controller_state = CONTROLLER_STARTUP
    /\ Called("cm_request_queue_flush")
    /\ nSent > 0

(***************************************************************************)
(* C8 as stated.  read_line is called only in a poll whose phase is Ready, *)
(* and a poll calls a protocol handler only if in that poll the phase was  *)
(* Ready and read_line returned a complete line; a poll that enters in     *)
(* NotConnected or Startup calls no handler.                               *)
(***************************************************************************)
C8_OnlyReadyDispatches ==
    PollDone =>
        /\ Called("read_line") =>
              (entryPhase = CONTROLLER_READY /\ connReads = << TRUE >>)
        /\ HandlerCalled => (entryPhase = CONTROLLER_READY /\ LineRead)
        /\ entryPhase \in {CONTROLLER_NOT_CONNECTED, CONTROLLER_STARTUP} => ~HandlerCalled

RECURSIVE SkipWhite(_)
SkipWhite(str) ==
    IF str # << >> /\ Head(str) = SPACE THEN SkipWhite(Tail(str)) ELSE str

ClaimedProtocol(line) ==
    LET t == SkipWhite(line)
    IN  IF t = << >> THEN "empty"
        ELSE CASE toupper(t[1]) = "H" -> "help"
               [] toupper(t[1]) \in {"$", "?"} -> "text-config"
               [] toupper(t[1]) = "{" -> "json"
               [] OTHER -> "motion"

\* the protocol the calls made for `line` belong to
CalledProtocol(line) ==
    IF Called("help_general") THEN "help"
    ELSE IF Called("text_parser") THEN "text-config"
    ELSE IF Called("gc_gcode_parser") THEN "motion"
    ELSE IF \E i \in 1..Len(calls) : calls[i].fn = "json_parser" /\ calls[i].arg = line
         THEN "json"
    ELSE IF Called("json_parser") THEN "motion"
    ELSE "empty"

C10_FirstNonWhitespaceSelects ==
    (PollDone /\ LineRead) => CalledProtocol(calls[1].arg) = ClaimedProtocol(calls[1].arg)

(***************************************************************************)
(* C11 as stated.  The response mode is sticky: a poll changes             *)
(* cfg.comm_mode only by dispatching a line it read: to text for a line    *)
(* starting with H, $ or ?, to JSON for a line starting with {; an empty   *)
(* line, a motion-command line and a poll that reads no complete line      *)
(* leave it as it is.  So the mode is always the one set by the most       *)
(* recent H/$/?/{ line.                                                    *)
(***************************************************************************)
ClaimedMode(line, mode) ==
    IF line = << >> THEN mode
    ELSE CASE toupper(line[1]) \in {"H", "$", "?"} -> TEXT_MODE
           [] toupper(line[1]) = "{" -> JSON_MODE
           [] OTHER -> mode

C11_ModeStep ==
    comm_mode' = IF /\ calls' # calls
                    /\ calls' # << >>
                    /\ calls'[1].fn = "read_line"
                    /\ calls'[1].stat = STAT_OK
                 THEN ClaimedMode(calls'[1].arg, comm_mode)
                 ELSE comm_mode

C11_StickyMode == [][C11_ModeStep]_vars

(***************************************************************************)
(* C12 as stated.  A motion-command line dispatched in JSON mode is not    *)
(* given to the Gcode parser and gets no text response: json_parser is     *)
(* called exactly once, with {"gc":"<line>"} and a newline.  In text mode  *)
(* json_parser is not called: gc_gcode_parser is called exactly once with  *)
(* the raw line, and its status goes to text_response with the saved line. *)
(***************************************************************************)
CallsTo(fn) == { i \in 1..Len(calls) : calls[i].fn = fn }

C12_MotionRouting ==
    (PollDone /\ LineRead /\ ClaimedProtocol(calls[1].arg) = "motion") =>
        LET line == calls[1].arg
        IN  IF comm_mode = JSON_MODE
            THEN /\ ~Called("gc_gcode_parser")
                 /\ ~Called("text_response")
                 /\ Cardinality(CallsTo("json_parser")) = 1
                 /\ \A i \in CallsTo("json_parser") : calls[i].arg = GcWrap(line)
            ELSE /\ ~Called("json_parser")
                 /\ Cardinality(CallsTo("gc_gcode_parser")) = 1
                 /\ Cardinality(CallsTo("text_response")) = 1
                 /\ \A i \in CallsTo("gc_gcode_parser"), j \in CallsTo("text_response") :
                       /\ calls[i].arg = line
                       /\ calls[j].stat = calls[i].stat
                       /\ calls[j].arg = saved_buf

(***************************************************************************)
(* C13 as stated.  For a motion-command line of L characters dispatched in *)
(* JSON mode, the bytes written back into cs.in_buf, terminator included,  *)
(* never exceed INPUT_BUFFER_LEN: the wrapped line has L plus the fixed    *)
(* overhead characters, and a line within 8 bytes of the capacity is       *)
(* truncated or rejected rather than written past the end.                 *)
(***************************************************************************)
WrapOverhead == Len(GcWrap(<< >>))

C13_WrapFits ==
    (PollDone /\ LineRead) =>
        \A i \in CallsTo("sprintf") :
            /\ calls[i].stat <= INPUT_BUFFER_LEN
            /\ Len(calls[1].arg) <= INPUT_BUFFER_LEN - 8 =>
                  Len(calls[i].arg) = Len(calls[1].arg) + WrapOverhead

(***************************************************************************)
(* C14.  cs.linelen is 0 when a protocol handler is called and when a poll *)
(* that dispatched returns, so read_line starts the next line at cursor 0. *)
(* An empty line read in Ready gets, in text mode, exactly one             *)
(* text_response(STAT_OK, "") and, in JSON mode, no call at all; it leaves *)
(* cs.linelen at 0 and the phase and the mode as they were, however often  *)
(* it is repeated.                                                         *)
(***************************************************************************)
EmptyLineRead == LineRead /\ calls[1].arg = << >>

C14_AfterDispatch ==
    /\ (PollDone /\ HandlerCalled) => linelen = 0
    /\ (PollDone /\ LineRead) => linelen = 0
    /\ (PollDone /\ EmptyLineRead) =>
          /\ controller_state = CONTROLLER_READY
          /\ saved_buf = << >>
          /\ IF comm_mode = JSON_MODE
             THEN Len(calls) = 1
             ELSE /\ Len(calls) = 2
                  /\ calls[2] = Call("text_response", STAT_OK, << >>)

C14_EmptyLineStep ==
    (calls' # calls /\ calls' # << >> /\ calls'[1] = Call("read_line", STAT_OK, << >>)) =>
        /\ comm_mode' = comm_mode
        /\ controller_state' = controller_state
        /\ linelen = 0
        /\ linelen' = 0

C14_CursorCleared == [] C14_AfterDispatch /\ [][C14_EmptyLineStep]_vars

\* an empty line echoed in text mode, the host having sent two lines
C14_Witness ==
    /\ PollDone
    /\ EmptyLineRead
    /\ nSent = 2
    /\ Called("text_response")
    /\ linelen = 0

(***************************************************************************)
(* C15.  A line starting with $ or ? (in either mode) and a motion-command *)
(* line in text mode: whatever status the parser returns, text_response is *)
(* called exactly once, with that status and the saved copy of the line;   *)
(* the mode is text afterwards; the dispatcher returns STAT_OK, and the    *)
(* phase and the cursor are Ready and 0 as after a success.                *)
(***************************************************************************)
ParsedAsText ==
    /\ LineRead
    /\ calls[1].arg # << >>
    /\ \/ calls[1].arg[1] \in {"$", "?"}
       \/ /\ ClaimedProtocol(calls[1].arg) = "motion"
          /\ comm_mode = TEXT_MODE
          /\ ~Called("sprintf")

C15_StatusToResponse ==
    (PollDone /\ ParsedAsText) =>
        /\ Len(calls) = 3
        /\ calls[2].fn = (IF calls[1].arg[1] \in {"$", "?"} THEN "text_parser"
                          ELSE "gc_gcode_parser")
        /\ calls[2].arg = calls[1].arg
        /\ calls[2].stat \in ParserStatus
        /\ calls[3] = Call("text_response", calls[2].stat,
                           Take(calls[1].arg, SAVED_BUFFER_LEN - 1))
        /\ calls[3].arg = saved_buf
        /\ comm_mode = TEXT_MODE
        /\ cdRet = STAT_OK
        /\ controller_state = CONTROLLER_READY
        /\ linelen = 0

\* the text-config parser failed on "$", the host having sent two lines, and
\* the tick went on to the normal idler
C15_Witness ==
    /\ TickDone
    /\ InRan("_normal_idler")
    /\ ParsedAsText
    /\ Called("text_parser")
    /\ calls[3] = Call("text_response", STAT_ERROR, << "$" >>)
    /\ in_buf[0] = "$"
    /\ nSent = 2

(***************************************************************************)
(* C16 as stated.  The connection state machine is re-evaluated in every   *)
(* tick: every tick of _controller_HSM reads the liveness of the link,     *)
(* also a tick that the alarm idler, the gate or another task ends early,  *)
(* and a tick that ends with the link down and never read it up ends in    *)
(* CONTROLLER_NOT_CONNECTED.                                               *)
(***************************************************************************)
C16_EvaluatedEveryTick ==
    TickDone =>
        /\ connReads # << >>
        /\ (~usbConnected /\ \A i \in 1..Len(connReads) : ~connReads[i]) =>
              controller_state = CONTROLLER_NOT_CONNECTED

(***************************************************************************)
(* C17.  A tick polls the dispatcher at most once, and a poll reads at     *)
(* most one line and calls at most one parser.  Whenever the dispatcher    *)
(* has called anything, then earlier in the same tick every task of higher *)
(* priority was invoked, the alarm idler found no alarm, the gate found    *)
(* headroom, and the dispatcher read the liveness of the link.  Two        *)
(* dispatches are therefore in different ticks, with all of this between   *)
(* them (and before the first).                                            *)
(***************************************************************************)
ParserFns == { "text_parser", "json_parser", "gc_gcode_parser" }

HigherPriority == SubSeq(ClaimedOrder, 1, Pos("_command_dispatch") - 1)

C17_ReevaluatedBeforeDispatch ==
    /\ Cardinality({ i \in 1..Len(ran) : ran[i] = "_command_dispatch" }) <= 1
    /\ Cardinality(CallsTo("read_line")) <= 1
    /\ Cardinality({ i \in 1..Len(calls) : calls[i].fn \in ParserFns }) <= 1
    /\ calls # << >> =>
          /\ IsPrefix(HigherPriority, ran)
          /\ Len(ran) > Len(HigherPriority)
          /\ ran[Len(HigherPriority) + 1] = "_command_dispatch"
          /\ alarmSeen \notin {"none", MACHINE_ALARM}
          /\ gateSaw >= PLANNER_BUFFER_HEADROOM
          /\ connReads # << >>
          /\ connReads[Len(connReads)] = TRUE

\* a line is read and dispatched, the host having sent two, and the tick is over
C17_Witness ==
    /\ TickDone
    /\ LineRead
    /\ HandlerCalled
    /\ nSent = 2
    /\ wire = << >>
    /\ rx = << >>
    /\ InRan("_normal_idler")

(***************************************************************************)
(* C18 as stated.  The normal idler runs only when the alarm is inactive:  *)
(* whenever _normal_idler is invoked, and so whenever it toggles the LED   *)
(* or rewrites cs.led_timer, the machine is not in MACHINE_ALARM, also     *)
(* when the machine went into alarm after the alarm idler of the same tick *)
(* returned.                                                               *)
(***************************************************************************)
C18_NormalIdlerStep ==
    ran' = Append(ran, "_normal_idler") => machine_state # MACHINE_ALARM

C18_NormalOnlyWithoutAlarm == [][C18_NormalIdlerStep]_vars

(***************************************************************************)
(* C19.  The LED and its deadline cs.led_timer change only in a poll of    *)
(* one of the two idlers, and only together.  An idler toggles only if the *)
(* clock it reads is strictly greater than the deadline; it toggles once,  *)
(* however far the clock is past the deadline, and the new deadline is the *)
(* clock reading plus the idler's period (LED_ALARM_TIMER for the alarm    *)
(* idler, LED_NORMAL_TIMER for the normal idler), so that no toggle is due *)
(* any more; a poll that does not toggle leaves the deadline unchanged.    *)
(***************************************************************************)
C19_LedStep ==
    LET period == IF AtTask("_alarm_idler") THEN LED_ALARM_TIMER ELSE LED_NORMAL_TIMER
    IN  /\ led' # led =>
              /\ AtTask("_alarm_idler") \/ AtTask("_normal_idler")
              /\ ran' = Append(ran, HSMOrder[pc])
              /\ clock > led_timer
              /\ led_timer' = clock' + period
              /\ ~(clock' > led_timer')
        /\ led' = led => led_timer' = led_timer

C19_DeadlineRescheduled == [][C19_LedStep]_vars

\* the LED has been toggled an even number of times, last by the normal
\* idler when the clock had passed the deadline
C19_Witness ==
    /\ TickDone
    /\ InRan("_normal_idler")
    /\ led = FALSE
    /\ led_timer = clock + LED_NORMAL_TIMER
    /\ clock = MaxClock

(***************************************************************************)
(* C20.  With the loop running for ever: if from some point on the link    *)
(* stays up, the machine is not in alarm, the planner has headroom and no  *)
(* task returns STAT_EAGAIN, then the phase becomes and stays Ready (a     *)
(* poll that enters in Startup with the link up leaves in Ready, the poll  *)
(* after the one that left NotConnected), and every complete line that is  *)
(* available to read_line is eventually read and dispatched, to one parser *)
(* at most.  If the alarm persists for ever, then from some point on the   *)
(* dispatcher is never polled and no line is dispatched.                   *)
(***************************************************************************)
Unhindered ==
    /\ usbConnected
    /\ machine_state # MACHINE_ALARM
    /\ buffers >= PLANNER_BUFFER_HEADROOM
    /\ blockedAt = 0

LineAvailable == PendingNow # NoLine

LineDispatched ==
    /\ PollDone
    /\ LineRead
    /\ rx = << >>
    /\ Cardinality({ i \in 1..Len(calls) : calls[i].fn \in ParserFns }) <= 1

StartupCompletes ==
    (PollDone /\ entryPhase = CONTROLLER_STARTUP /\ connReads = << TRUE >>) =>
        controller_state = CONTROLLER_READY

C20_Progress ==
    /\ [] StartupCompletes
    /\ <>[] Unhindered => <>[] (controller_state = CONTROLLER_READY)
    /\ <>[] Unhindered => (LineAvailable ~> LineDispatched)
    /\ <>[] (machine_state = MACHINE_ALARM) => <>[] (calls = << >> /\ connReads = << >>)

\* the gate held a line back; with headroom again, the phase is Ready and the
\* line has been read and dispatched
C20_Witness ==
    /\ TickDone
    /\ Unhindered
    /\ LineDispatched
    /\ HandlerCalled
    /\ controller_state = CONTROLLER_READY
    /\ entryPhase = CONTROLLER_READY
    /\ gateHeld # << >>

====
